---- MODULE Spec2Model ----
(***************************************************************************)
(* A model of src/index.ts: the Endpoint class, its constructor, the       *)
(* client-side call() and the express callback returned by handler().      *)
(*                                                                         *)
(* JavaScript strings are modelled as sequences of lexemes (each lexeme a  *)
(* TLA+ string), so that string concatenation is sequence concatenation    *)
(* and the empty string is the empty sequence.  JavaScript values are      *)
(* records with a tag t, a number n, a string s and array elements a.      *)
(***************************************************************************)
EXTENDS Integers, Sequences, FiniteSets, TLC

\* ------------------------------------------------------------------ bounds

\* Largest number of header fragments passed to call(requestData, ...h).
MaxFragments == 2

\* Largest number of "data" events the request stream emits before "end".
MaxChunks == 2

\* ------------------------------------------------------- JavaScript values

Val(t, n, s, a) == [t |-> t, n |-> n, s |-> s, a |-> a]

Undefined == Val("undefined", 0, <<>>, <<>>)
Null      == Val("null", 0, <<>>, <<>>)
NaNValue  == Val("NaN", 0, <<>>, <<>>)
Num(k)    == Val("number", k, <<>>, <<>>)
Str(s)    == Val("string", 0, s, <<>>)
Arr(xs)   == Val("array", 0, <<>>, xs)
\* The object {v: k}.
Obj(k)    == Val("object", k, <<>>, <<>>)
\* The object {}.
EmptyObj  == Val("emptyobject", 0, <<>>, <<>>)
\* The object {v: undefined}.
ObjUndef  == Val("objectundef", 0, <<>>, <<>>)
\* An object that refers to itself: o.self = o.
Circular  == Val("circular", 0, <<>>, <<>>)
\* An Error object; s holds what its toString() returns.
ErrorOf(name, message) == Val("error", 0, <<name, ": ">> \o message, <<>>)

\* The outcome of an evaluation that may throw: the value, or the thrown one.
Return(v) == [threw |-> FALSE, val |-> v]
Throw(e)  == [threw |-> TRUE, val |-> e]

\* The numbers that occur inside JSON texts of the model.
Numbers == {0, 42}

\* JavaScript truthiness, as used by the || operator.
Falsy(v) ==
    \/ v.t \in {"undefined", "null", "NaN"}
    \/ v.t = "number" /\ v.n = 0
    \/ v.t = "string" /\ v.s = <<>>

Or(x, y) == IF Falsy(x) THEN y ELSE x

\* value.toString(): undefined and null have no such method.
toString(v) ==
    CASE v.t \in {"undefined", "null"} ->
            Throw(ErrorOf("TypeError", <<"Cannot read properties of ", v.t>>))
      [] v.t = "string" -> Return(Str(v.s))
      [] v.t = "number" -> Return(Str(<<ToString(v.n)>>))
      [] v.t = "NaN"    -> Return(Str(<<"NaN">>))
      [] v.t = "error"  -> Return(Str(v.s))
      [] OTHER          -> Return(Str(<<"[object Object]">>))

\* JSON.stringify(value).
JSONstringify(v) ==
    CASE v.t = "undefined"   -> Return(Undefined)
      [] v.t = "null"        -> Return(Str(<<"null">>))
      [] v.t = "NaN"         -> Return(Str(<<"null">>))
      [] v.t = "number"      -> Return(Str(<<ToString(v.n)>>))
      [] v.t = "object"      -> Return(Str(<<"{", "\"v\"", ":", ToString(v.n), "}">>))
      [] v.t = "emptyobject" -> Return(Str(<<"{", "}">>))
      [] v.t = "objectundef" -> Return(Str(<<"{", "}">>))
      [] OTHER               ->
            Throw(ErrorOf("TypeError", <<"Converting circular structure to JSON">>))

IsWhitespace(x) == x = " "
NotWhitespace(x) == ~IsWhitespace(x)
IsNumberLexeme(x) == \E k \in Numbers : ToString(k) = x
NumberOf(x) == CHOOSE k \in Numbers : ToString(k) = x

\* JSON.parse(text): whitespace is skipped, then exactly one value must remain.
JSONparse(text) ==
    LET t == SelectSeq(text, NotWhitespace)
        bad == Throw(ErrorOf("SyntaxError", <<"Unexpected token in JSON">>))
    IN  CASE t = <<"null">> -> Return(Null)
          [] Len(t) = 1 /\ IsNumberLexeme(t[1]) -> Return(Num(NumberOf(t[1])))
          [] t = <<"{", "}">> -> Return(EmptyObj)
          [] /\ Len(t) = 5
             /\ t[1] = "{" /\ t[2] = "\"v\"" /\ t[3] = ":" /\ t[5] = "}"
             /\ IsNumberLexeme(t[4]) -> Return(Obj(NumberOf(t[4])))
          [] OTHER -> bad

\* " ".repeat(i)
RECURSIVE repeat(_)
repeat(i) == IF i <= 0 THEN <<>> ELSE <<" ">> \o repeat(i - 1)

\* lines.join("\n")
RECURSIVE join(_)
join(lines) ==
    IF lines = <<>> THEN <<>>
    ELSE IF Len(lines) = 1 THEN lines[1]
    ELSE lines[1] \o <<"\n">> \o join(Tail(lines))

\* ------------------------------------------------------------ constructor

\* The statuses, methods, paths and bases the model draws from.
Statuses == {200, 201, 404}
Methods  == {<<"POST">>, <<"GET">>}
Paths    == {<<"/foo">>, <<"/bar">>}
Bases    == {<<>>, <<"http://h">>}

\* Config objects: every optional field is either undefined or given.
Configs ==
    [path   : {Str(<<"/foo">>)},
     base   : {Undefined} \cup {Str(b) : b \in Bases},
     method : {Undefined} \cup {Str(m) : m \in Methods},
     expect : {Undefined, Num(201), Arr(<<>>), Arr(<<200, 404>>)}]

\* The constructor's argument: a Config, or a bare path string.
Inputs == Configs \cup {Str(<<"/foo">>), Str(<<>>)}

\* [].concat(x): an array argument is spread, anything else is appended.
concat(x) == IF x.t = "array" THEN x.a ELSE <<x.n>>

\* typeof x === "string"
IsString(x) == "t" \in DOMAIN x /\ x.t = "string"

\* The constructor with "GET" as the default method.
constructorDefaultingToGet(pathOrConfig) ==
    LET c == IF IsString(pathOrConfig)
             THEN [path |-> pathOrConfig, base |-> Undefined,
                   method |-> Undefined, expect |-> Undefined]
             ELSE pathOrConfig
    IN  [path   |-> Or(c.path, Str(<<"/">>)).s,
         base   |-> Or(c.base, Str(<<>>)).s,
         method |-> Or(c.method, Str(<<"GET">>)).s,
         expect |-> concat(Or(c.expect, Num(200)))]

\* constructor(pathOrConfig)
constructor(pathOrConfig) ==
    LET c == IF IsString(pathOrConfig)
             THEN [path |-> pathOrConfig, base |-> Undefined,
                   method |-> Undefined, expect |-> Undefined]
             ELSE pathOrConfig
    IN  [path   |-> Or(c.path, Str(<<"/">>)).s,
         base   |-> Or(c.base, Str(<<>>)).s,
         method |-> Or(c.method, Str(<<"POST">>)).s,
         expect |-> concat(Or(c.expect, Num(200)))]

\* this.error(...messages): an Error whose message names the endpoint.
error(config, messages) ==
    LET all == <<Str(<<"EndpointError (">> \o config.method \o <<" ">>
                     \o config.base \o config.path \o <<")">>)>> \o messages
        strs == [i \in 1..Len(all) |-> toString(all[i])]
    IN  IF \E i \in 1..Len(all) : strs[i].threw
        THEN Throw(strs[CHOOSE i \in 1..Len(all) :
                          /\ strs[i].threw
                          /\ \A j \in 1..(i - 1) : ~strs[j].threw].val)
        ELSE Return(ErrorOf("Error",
                 join([i \in 1..Len(all) |-> repeat(i - 1) \o strs[i].val.s])))

\* ------------------------------------------------------------------ state

VARIABLES
    input,        \* the constructor's argument
    config,       \* this.config
    pc,           \* where the running call() or callback is suspended
    args,         \* the arguments of call(): requestData and the fragments h
    sent,         \* the requests Endpoint.sender was invoked with
    response,     \* what the sender settled with
    parses,       \* how many times call() ran JSON.parse on a response body
    callResult,   \* the promise call() returned
    req,          \* the incoming request: path, method, and whether an
                  \* earlier handler of the chain had answered it
    headersSent,  \* res.headersSent
    listening,    \* the callback attached "data"/"end" listeners to req
    data,         \* the request body accumulated so far
    chunks,       \* "data" events emitted so far
    handlerCalls, \* the parsed requests the user handler was invoked with
    settled,      \* what the user handler settled with
    resLog,       \* the operations performed on res, in order, and by whom
    nextCalls,    \* the argument lists next was called with
    callback      \* the promise the async callback returned

vars == <<input, config, pc, args, sent, response, parses, callResult, req,
          headersSent, listening, data, chunks, handlerCalls, settled,
          resLog, nextCalls, callback>>

clientVars == <<args, sent, response, parses, callResult>>
serverVars == <<req, headersSent, listening, data, chunks, handlerCalls,
                settled, resLog, nextCalls, callback>>

Pending == [state |-> "pending", val |-> Undefined]
Resolved(v) == [state |-> "resolved", val |-> v]
Rejected(e) == [state |-> "rejected", val |-> e]

NoRequest == [path |-> <<>>, method |-> <<>>, answered |-> FALSE]
NoArgs == [requestData |-> Undefined, h |-> <<>>]
NoResponse == [threw |-> FALSE, status |-> 0, body |-> <<>>, e |-> Undefined]
NotSettled == [threw |-> FALSE, val |-> Undefined]

Init ==
    /\ input \in Inputs
    /\ config = constructor(input)
    /\ pc = "idle"
    /\ args = NoArgs
    /\ sent = <<>>
    /\ response = NoResponse
    /\ parses = 0
    /\ callResult = Pending
    /\ req = NoRequest
    /\ headersSent = FALSE
    /\ listening = FALSE
    /\ data = <<>>
    /\ chunks = 0
    /\ handlerCalls = <<>>
    /\ settled = NotSettled
    /\ resLog = <<>>
    /\ nextCalls = <<>>
    /\ callback = Pending

\* ----------------------------------------------------------------- call()

HeaderNames == {"Content-Type", "X-Trace"}

\* The header values the model draws from; Undefined marks an absent key.
HeaderValues == {Undefined, Str(<<"application/json">>), Str(<<"text/plain">>)}

\* The header fragments a caller may pass.
Fragments ==
    {f \in [HeaderNames -> HeaderValues] :
        f["X-Trace"] \in {Undefined, f["Content-Type"]}}

RECURSIVE SeqsUpTo(_, _)
SeqsUpTo(S, n) ==
    IF n = 0 THEN {<<>>}
    ELSE LET shorter == SeqsUpTo(S, n - 1)
         IN  shorter \cup {Append(q, x) : q \in shorter, x \in S}

\* {"Content-Type": "application/json"}
DefaultHeaders ==
    [k \in HeaderNames |->
        IF k = "Content-Type" THEN Str(<<"application/json">>) ELSE Undefined]

\* Object.assign with the sources applied right to left: the first fragment
\* that defines a key wins.
RECURSIVE assignFirstWins(_, _)
assignFirstWins(target, sources) ==
    IF sources = <<>> THEN target
    ELSE LET rest == assignFirstWins(target, Tail(sources))
         IN  [k \in HeaderNames |->
                 IF Head(sources)[k] # Undefined THEN Head(sources)[k]
                 ELSE rest[k]]

\* Object.assign(target, ...sources): own keys of each source, left to right.
RECURSIVE assign(_, _)
assign(target, sources) ==
    IF sources = <<>> THEN target
    ELSE assign([k \in HeaderNames |->
                    IF Head(sources)[k] # Undefined THEN Head(sources)[k]
                    ELSE target[k]],
                Tail(sources))

\* The url without the base.
urlWithoutBase(c) == c.path

\* `${this.config.base}${this.config.path}`
url(c) == c.base \o c.path

\* array.indexOf(x): the first index of x, from 0, or -1.
indexOf(array, x) ==
    IF \E i \in 1..Len(array) : array[i] = x
    THEN (CHOOSE i \in 1..Len(array) :
             array[i] = x /\ \A j \in 1..(i - 1) : array[j] # x) - 1
    ELSE -1

\* The request payloads and the values user code may return.
Payloads == {Undefined, Null, NaNValue, Num(42), Obj(42), ObjUndef, Circular}

\* The values user code (the sender, the user handler) may throw.
Thrown == {ErrorOf("Error", <<"boom">>), Str(<<"oops">>), Undefined}

\* The response bodies the sender may return.
Bodies == {<<"{", "\"v\"", ":", "42", "}">>, <<" ", "42">>, <<"ok">>, <<>>}

SenderResolves(status, body) ==
    [threw |-> FALSE, status |-> status, body |-> body, e |-> Undefined]
SenderRejects(e) ==
    [threw |-> TRUE, status |-> 0, body |-> <<>>, e |-> e]

SenderOutcomes ==
    {SenderResolves(st, b) : st \in Statuses, b \in Bodies}
        \cup {SenderRejects(e) : e \in Thrown}

\* call(requestData, ...h), up to the await of the sender.
Call(requestData, h) ==
    /\ pc = "idle"
    /\ args' = [requestData |-> requestData, h |-> h]
    /\ LET body == JSONstringify(requestData)
       IN  IF body.threw
           THEN /\ callResult' = Rejected(error(config,
                        <<Str(<<"Could not stringify request data">>),
                          body.val>>).val)
                /\ pc' = "callDone"
                /\ UNCHANGED sent
           ELSE /\ sent' = Append(sent,
                        [method  |-> config.method,
                         url     |-> url(config),
                         body    |-> body.val,
                         headers |-> assign(DefaultHeaders, h)])
                /\ pc' = "awaitSender"
                /\ UNCHANGED callResult
    /\ UNCHANGED <<input, config, response, parses>>
    /\ UNCHANGED serverVars

\* The status check against 200 alone, whatever the configuration expects.
unexpectedUnless200(c, status) == status # 200

\* The status check of call().
unexpected(c, status) == indexOf(c.expect, status) < 0

\* call() from the point where the sender settles.
SenderSettles(o) ==
    /\ pc = "awaitSender"
    /\ response' = o
    /\ pc' = "callDone"
    /\ IF o.threw
       THEN /\ callResult' = Rejected(error(config,
                    <<Str(<<"Request sending failed">>), o.e>>).val)
            /\ UNCHANGED parses
       ELSE IF unexpected(config, o.status)
       THEN /\ callResult' = Rejected(error(config,
                    <<Str(<<"Unexpected status: ", ToString(o.status)>>),
                      Str(o.body)>>).val)
            /\ UNCHANGED parses
       ELSE LET responseData == JSONparse(o.body)
            IN  /\ parses' = parses + 1
                /\ callResult' =
                       IF responseData.threw
                       THEN Rejected(error(config,
                                <<Str(<<"Could not parse response data">>),
                                  responseData.val, Str(o.body)>>).val)
                       ELSE Resolved(responseData.val)
    /\ UNCHANGED <<input, config, args, sent>>
    /\ UNCHANGED serverVars

\* -------------------------------------------------------------- handler()

\* The pieces a request body arrives in.
Chunks == {<<"{">>, <<"}">>, <<"42">>, <<" ">>}

Requests == [path : Paths, method : Methods, answered : BOOLEAN]

Entry(by, op, name, arg) == [by |-> by, op |-> op, name |-> name, arg |-> arg]

next(arguments) == nextCalls' = Append(nextCalls, arguments)

\* return next(this.error(...)): the error is built first, and building it
\* may itself throw, which rejects the callback's promise.
forward(e) ==
    IF e.threw
    THEN /\ callback' = Rejected(e.val)
         /\ UNCHANGED nextCalls
    ELSE /\ next(<<e.val>>)
         /\ callback' = Resolved(Undefined)

\* The checks without the comparison of the methods.
stageIgnoringMethod(c, r) ==
    IF r.path # c.path THEN "pass"
    ELSE IF r.answered THEN "error"
    ELSE "claim"

\* The checks without the test of res.headersSent.
stageIgnoringHeadersSent(c, r) ==
    IF r.path # c.path THEN "pass"
    ELSE IF r.method # c.method THEN "pass"
    ELSE "claim"

\* The checks the callback starts with: the request is passed on, refused
\* with an error, or claimed.
stage(c, r) ==
    IF r.path # c.path THEN "pass"
    ELSE IF r.method # c.method THEN "pass"
    ELSE IF r.answered THEN "error"
    ELSE "claim"

\* The callback, from its invocation to the await of the request body.
Receive(r) ==
    /\ pc = "idle"
    /\ req' = r
    /\ headersSent' = r.answered
    /\ CASE stage(config, r) = "pass" ->
                /\ next(<<>>)
                /\ callback' = Resolved(Undefined)
                /\ pc' = "handlerDone"
                /\ UNCHANGED listening
         [] stage(config, r) = "error" ->
                /\ forward(error(config,
                        <<Str(<<"Response has already been sent.">>)>>))
                /\ pc' = "handlerDone"
                /\ UNCHANGED listening
         [] OTHER ->
                /\ listening' = TRUE
                /\ pc' = "reading"
                /\ UNCHANGED <<nextCalls, callback>>
    /\ UNCHANGED <<input, config, data, chunks, handlerCalls, settled, resLog>>
    /\ UNCHANGED clientVars

\* req.on("data", (chunk) => (data += chunk))
OnData(chunk) ==
    /\ pc = "reading"
    /\ chunks < MaxChunks
    /\ data' = data \o chunk
    /\ chunks' = chunks + 1
    /\ UNCHANGED <<input, config, pc, req, headersSent, listening,
                   handlerCalls, settled, resLog, nextCalls, callback>>
    /\ UNCHANGED clientVars

\* req.on("end", ...): the body is parsed and the user handler is invoked.
OnEnd ==
    /\ pc = "reading"
    /\ LET requestData == JSONparse(data)
       IN  IF requestData.threw
           THEN /\ forward(error(config,
                        <<Str(<<"Could not parse request data">>),
                          requestData.val, Str(data)>>))
                /\ pc' = "handlerDone"
                /\ UNCHANGED handlerCalls
           ELSE /\ handlerCalls' = Append(handlerCalls, requestData.val)
                /\ pc' = "invoking"
                /\ UNCHANGED <<nextCalls, callback>>
    /\ UNCHANGED <<input, config, req, headersSent, listening, data, chunks,
                   settled, resLog>>
    /\ UNCHANGED clientVars

\* The user handler sets a status of its own on res, without sending.
HandlerTouches ==
    /\ pc = "invoking"
    /\ resLog = <<>>
    /\ resLog' = Append(resLog, Entry("handler", "status", "", Num(201)))
    /\ UNCHANGED <<input, config, pc, req, headersSent, listening, data,
                   chunks, handlerCalls, settled, nextCalls, callback>>
    /\ UNCHANGED clientVars

\* The user handler sends the response itself.
HandlerSends ==
    /\ pc = "invoking"
    /\ ~headersSent
    /\ headersSent' = TRUE
    /\ resLog' = Append(resLog, Entry("handler", "send", "", Str(<<"ok">>)))
    /\ UNCHANGED <<input, config, pc, req, listening, data, chunks,
                   handlerCalls, settled, nextCalls, callback>>
    /\ UNCHANGED clientVars

\* The answer without its Content-Type.
respondWithoutContentType(rawResponseData) ==
    <<Entry("endpoint", "status", "", Num(200)),
      Entry("endpoint", "send", "", rawResponseData)>>

\* The three calls that answer the request.
respond(rawResponseData) ==
    <<Entry("endpoint", "status", "", Num(200)),
      Entry("endpoint", "set", "Content-Type", Str(<<"application/json">>)),
      Entry("endpoint", "send", "", rawResponseData)>>

\* The callback, from the point where the user handler settles.
HandlerSettles(o) ==
    /\ pc = "invoking"
    /\ settled' = o
    /\ pc' = "handlerDone"
    /\ IF o.threw
       THEN /\ forward(error(config, <<Str(<<"Handler error">>), o.val>>))
            /\ UNCHANGED <<resLog, headersSent>>
       ELSE IF headersSent
       THEN /\ forward(error(config,
                    <<Str(<<"Response was sent by handler.">>)>>))
            /\ UNCHANGED <<resLog, headersSent>>
       ELSE LET rawResponseData == JSONstringify(o.val)
            IN  IF rawResponseData.threw
                THEN \* return this.error(...): the error is returned, not
                     \* passed to next.
                     LET e == error(config,
                                <<Str(<<"Could not stringify response data">>),
                                  rawResponseData.val>>)
                     IN  /\ callback' = IF e.threw THEN Rejected(e.val)
                                        ELSE Resolved(e.val)
                         /\ UNCHANGED <<nextCalls, resLog, headersSent>>
                ELSE /\ resLog' = resLog \o respond(rawResponseData.val)
                     /\ headersSent' = TRUE
                     /\ callback' = Resolved(Undefined)
                     /\ UNCHANGED nextCalls
    /\ UNCHANGED <<input, config, req, listening, data, chunks, handlerCalls>>
    /\ UNCHANGED clientVars

\* ------------------------------------------------------------ specification

Next ==
    \/ \E requestData \in Payloads, h \in SeqsUpTo(Fragments, MaxFragments) :
          Call(requestData, h)
    \/ \E o \in SenderOutcomes : SenderSettles(o)
    \/ \E r \in Requests : Receive(r)
    \/ \E chunk \in Chunks : OnData(chunk)
    \/ OnEnd
    \/ HandlerTouches
    \/ HandlerSends
    \/ \E o \in {Return(v) : v \in Payloads} \cup {Throw(e) : e \in Thrown} :
          HandlerSettles(o)

Spec == Init /\ [][Next]_vars

\* ------------------------------------------------------------------ claims

IsEndpointEntry(e) == e.by = "endpoint"
IsHandlerSend(e) == e.by = "handler" /\ e.op = "send"
IsEndpointSend(e) == e.by = "endpoint" /\ e.op = "send"

\* What the Endpoint itself did to res.
EndpointLog == SelectSeq(resLog, IsEndpointEntry)

HandlerSent == SelectSeq(resLog, IsHandlerSend) # <<>>

Received == req # NoRequest
Matching == req.path = config.path /\ req.method = config.method

\* The first line of every error message of the endpoint.
Header == <<"EndpointError (">> \o config.method \o <<" ">>
              \o config.base \o config.path \o <<")">>

\* next was called once, with one argument, an Error of the endpoint.
ForwardedError ==
    /\ Len(nextCalls) = 1
    /\ Len(nextCalls[1]) = 1
    /\ nextCalls[1][1].t = "error"
    /\ SubSeq(nextCalls[1][1].s, 1, 2) = <<"Error", ": ">>
    /\ SubSeq(nextCalls[1][1].s, 3, 2 + Len(Header)) = Header

\* C1: a request whose path or method differs from the configured one is
\* passed on with next(), with no argument; the user handler is not invoked,
\* the body is not read and nothing is done to the response.
C1_MismatchPassesThrough ==
    (Received /\ ~Matching) =>
        /\ pc = "handlerDone"
        /\ nextCalls = << <<>> >>
        /\ handlerCalls = <<>>
        /\ ~listening
        /\ resLog = <<>>
        /\ headersSent = req.answered

C1_Witness ==
    /\ Received
    /\ req.path = config.path
    /\ req.method # config.method
    /\ nextCalls = << <<>> >>

\* C2: for a claimed request, when the body is not valid JSON, or the user
\* handler throws or rejects, or the user handler has sent the response
\* before returning, an error is forwarded with next(err) and the Endpoint
\* neither sets a status nor sends a body.
C2_ErrorsForwarded ==
    (/\ pc = "handlerDone"
     /\ listening
     /\ \/ JSONparse(data).threw
        \/ settled.threw
        \/ handlerCalls # <<>> /\ HandlerSent) =>
        /\ ForwardedError
        /\ EndpointLog = <<>>

\* C3: when the payload the user handler returned cannot be serialized, the
\* error is forwarded with next(err) and no response is sent.
C3_SerializationErrorForwarded ==
    (/\ pc = "handlerDone"
     /\ handlerCalls # <<>>
     /\ ~settled.threw
     /\ ~HandlerSent
     /\ JSONstringify(settled.val).threw) =>
        /\ ForwardedError
        /\ EndpointLog = <<>>

\* The callback answered: status 200, Content-Type application/json, one send
\* of the serialized result, and no call of next.
C4_Answered ==
    /\ Len(EndpointLog) = 3
    /\ EndpointLog[1].op = "status" /\ EndpointLog[1].arg = Num(200)
    /\ EndpointLog[2].op = "set"
    /\ EndpointLog[2].name = "Content-Type"
    /\ EndpointLog[2].arg = Str(<<"application/json">>)
    /\ EndpointLog[3].op = "send"
    /\ EndpointLog[3].arg = JSONstringify(settled.val).val
    /\ Len(SelectSeq(resLog, IsEndpointSend)) = 1
    /\ headersSent
    /\ nextCalls = <<>>

\* The user handler returned a result and did not send the response itself.
C4_Returned ==
    /\ pc = "handlerDone"
    /\ handlerCalls # <<>>
    /\ ~settled.threw
    /\ ~HandlerSent

\* C4 as stated: whenever the user handler returns a result without sending
\* the response itself, the callback answers 200 with the serialized result
\* and does not call next.
C4_AnyResultAnswered == C4_Returned => C4_Answered

\* C4, amended: whenever the user handler returns a result that JSON.stringify
\* accepts, without sending the response itself, the callback sets status 200
\* and Content-Type application/json, sends JSON.stringify(result) once, and
\* does not call next.
C4_SerializableResultAnswered ==
    (C4_Returned /\ ~JSONstringify(settled.val).threw) => C4_Answered

C4_Witness ==
    /\ C4_Returned
    /\ settled.val = Obj(42)
    /\ EndpointLog[3].arg = Str(<<"{", "\"v\"", ":", "42", "}">>)

\* C5: when the sender returns a status outside the configured expect list,
\* call rejects with an error that carries the status and the response body,
\* and the body is never parsed.
C5_UnexpectedStatusRejects ==
    (/\ pc = "callDone"
     /\ sent # <<>>
     /\ ~response.threw
     /\ \A i \in 1..Len(config.expect) : config.expect[i] # response.status) =>
        /\ callResult.state = "rejected"
        /\ callResult.val =
               ErrorOf("Error",
                   Header \o <<"\n", " ", "Unexpected status: ",
                               ToString(response.status), "\n", " ", " ">>
                          \o response.body)
        /\ parses = 0

C5_Witness ==
    /\ pc = "callDone"
    /\ config.expect = <<201>>
    /\ ~response.threw
    /\ response.status = 200
    /\ response.body = <<"{", "\"v\"", ":", "42", "}">>
    /\ callResult.state = "rejected"

\* C6: when the payload is serializable, the sender resolves with an expected
\* status and the body is valid JSON, call resolves with the parsed body,
\* having invoked the sender once with the configured method, base + path and
\* the serialized payload.
C6_CallResolves ==
    (/\ pc = "callDone"
     /\ ~JSONstringify(args.requestData).threw
     /\ ~response.threw
     /\ \E i \in 1..Len(config.expect) : config.expect[i] = response.status
     /\ ~JSONparse(response.body).threw) =>
        /\ callResult = Resolved(JSONparse(response.body).val)
        /\ response.body = <<"{", "\"v\"", ":", "42", "}">> =>
               callResult.val = Obj(42)
        /\ response.body = <<" ", "42">> => callResult.val = Num(42)
        /\ Len(sent) = 1
        /\ sent[1].method = config.method
        /\ sent[1].url = config.base \o config.path
        /\ sent[1].body = JSONstringify(args.requestData).val
        /\ parses = 1

C6_Witness ==
    /\ pc = "callDone"
    /\ config.base = <<"http://h">>
    /\ args.requestData = Obj(42)
    /\ sent[1].url = <<"http://h", "/foo">>
    /\ response.status = 200
    /\ callResult = Resolved(Obj(42))

\* The Config the constructor's argument stands for.
GivenConfig ==
    IF IsString(input)
    THEN [path |-> input, base |-> Undefined, method |-> Undefined,
          expect |-> Undefined]
    ELSE input

\* C7: the effective configuration has method POST, base "" and expect [200]
\* where the field is omitted; a given method and base are kept, a given
\* status becomes a one-element list and a given list stays that list.
C7_Defaults ==
    /\ config.method = IF GivenConfig.method = Undefined THEN <<"POST">>
                       ELSE GivenConfig.method.s
    /\ config.base = IF GivenConfig.base = Undefined THEN <<>>
                     ELSE GivenConfig.base.s
    /\ config.expect =
           CASE GivenConfig.expect = Undefined -> <<200>>
             [] GivenConfig.expect.t = "number" -> <<GivenConfig.expect.n>>
             [] OTHER -> GivenConfig.expect.a

C7_Witness ==
    /\ ~IsString(input)
    /\ input.method = Undefined
    /\ input.base = Str(<<"http://h">>)
    /\ input.expect = Num(201)
    /\ config.method = <<"POST">>
    /\ config.base = <<"http://h">>
    /\ config.expect = <<201>>

\* The fragments of the call that define header k.
Defining(k) == {i \in 1..Len(args.h) : args.h[i][k] # Undefined}
Last(S) == CHOOSE i \in S : \A j \in S : j <= i

\* C8: the headers given to the sender are the fragments merged left to right
\* over {Content-Type: application/json}: each header has the value of the
\* last fragment that defines it, and Content-Type is application/json exactly
\* when no fragment defines it or the last one that does sets that value.
C8_HeadersMerged ==
    sent # <<>> =>
        /\ \A k \in HeaderNames :
              sent[1].headers[k] =
                  IF Defining(k) # {} THEN args.h[Last(Defining(k))][k]
                  ELSE IF k = "Content-Type" THEN Str(<<"application/json">>)
                  ELSE Undefined
        /\ sent[1].headers["Content-Type"] = Str(<<"application/json">>) <=>
              \/ Defining("Content-Type") = {}
              \/ args.h[Last(Defining("Content-Type"))]["Content-Type"]
                     = Str(<<"application/json">>)

C8_Witness ==
    /\ sent # <<>>
    /\ Len(args.h) = 2
    /\ args.h[1]["Content-Type"] = Str(<<"application/json">>)
    /\ args.h[2]["Content-Type"] = Str(<<"text/plain">>)
    /\ sent[1].headers["Content-Type"] = Str(<<"text/plain">>)

\* C9: a matching request that an earlier handler has already answered is
\* refused with next(err); the body is not read, the user handler is not
\* invoked and nothing is sent.
C9_AnsweredRequestRefused ==
    (Received /\ Matching /\ req.answered) =>
        /\ pc = "handlerDone"
        /\ nextCalls = << <<ErrorOf("Error",
               Header \o <<"\n", " ", "Response has already been sent.">>)>> >>
        /\ ~listening
        /\ handlerCalls = <<>>
        /\ resLog = <<>>

C9_Witness ==
    /\ Received
    /\ Matching
    /\ req.answered
    /\ Len(nextCalls) = 1

\* C10: once the callback has run to its end, it has performed exactly one
\* terminal action, a call of next or a send of the response, and the user
\* handler was invoked at most once.
C10_OneTerminalAction ==
    pc = "handlerDone" =>
        /\ Len(nextCalls) + Len(SelectSeq(resLog, IsEndpointSend)) = 1
        /\ Len(handlerCalls) <= 1
====
